---- MODULE Spec2Model ----
(***************************************************************************)
(* Model of app.py: the growth-and-carbon engine (calculate_dbh,           *)
(* evaluate_agb, get_recs_for_species, run_multi) and the /calculate       *)
(* handler that calls it.                                                  *)
(*                                                                         *)
(* Numbers.  Python floats are held as exact rationals: every mass is an   *)
(* integer count of 1/6000 of the unit the registry equations give, so     *)
(* that the root-to-shoot ratio (351/1000), CARBON_FRACTION (1/2) and      *)
(* CO2E_FACTOR (44/12) are applied without remainder.  IEEE rounding is    *)
(* not modelled.                                                           *)
(*                                                                         *)
(* Tables.  SPECIES_METADATA and DBH_VALUES keep the shape of the source   *)
(* tables (ids, an equation text, rsr = 0.351, curves that start at 0,     *)
(* are non-decreasing, have leading zeros for CASEQ and differ in length)  *)
(* with short integer curves and integer exponents.                        *)
(*                                                                         *)
(* Texts.  An equation text is a sequence of lexical tokens; a text is     *)
(* well lexed when no two word tokens are adjacent (in Python source they  *)
(* would read as one identifier).  eval is modelled for the expression    *)
(* grammar the texts can spell (numbers, names, attribute access, calls,   *)
(* + - * / ** and parentheses); math.exp, math.log and math.sqrt have      *)
(* integer stand-ins (base 2 for e).  A name that does not resolve raises  *)
(* an exception that is written NameError here (the interpreter raises     *)
(* NameError or TypeError when __builtins__ is None); it is never a        *)
(* ValueError.                                                             *)
(***************************************************************************)
EXTENDS Integers, Sequences, FiniteSets, TLC

VARIABLES pc, total_requests, request, response, dbh_call, agb_call

vars == <<pc, total_requests, request, response, dbh_call, agb_call>>

(* ------------------------------ bounds ------------------------------ *)
\* longest planting schedule in a request
MaxLen == 3
\* largest project_years (horizon) in a request
MaxYrs == 4
\* largest planting year in a request
MaxStart == 2
\* requests served by the process
MaxRequests == 1
\* longest callee part of a probe text for evaluate_agb
MaxCallee == 4

\* tree counts of a planting
TreeCounts == {1, 2}

(* ----------------------- results and exceptions ---------------------- *)
\* A call either returns a value or raises: exc = "none" means it returned.
Return(v) == [exc |-> "none", msg |-> << >>, val |-> v]

Raise(e, m) == [exc |-> e, msg |-> m, val |-> << >>]

Raised(r) == r.exc # "none"

(* ------------------------------ tables ------------------------------ *)
\* app.py:48-72 (two of the nine entries; every rsr of the source is 0.351)
SPECIES_METADATA ==
  << [species_id |-> "CASEQ",
      allometric_equation |-> <<"EXP", "(", "1", ")", "*", "(", "DBH", "^", "2", ")", "*", "6000", "/", "2">>,
      rsr |-> <<351, 1000>>],
     [species_id |-> "ACMAN",
      allometric_equation |-> <<"6000", "*", "(", "DBH", "**", "2", ")">>,
      rsr |-> <<351, 1000>>] >>

\* app.py:75-131; Python's arr[t] is DBH_VALUES[sid][t + 1] here
DBH_VALUES ==
  [CASEQ |-> <<0, 0, 6, 8>>,
   ACMAN |-> <<0, 5, 10>>]

RegistryIds == {SPECIES_METADATA[i].species_id : i \in DOMAIN SPECIES_METADATA}

\* ids a request may carry: the registered ones and one that is in no table
SpeciesIds == RegistryIds \cup {"XXXXX"}

\* the row of SPECIES_METADATA with this id (df_sp.loc[sid])
Meta(sid) == SPECIES_METADATA[CHOOSE i \in DOMAIN SPECIES_METADATA : SPECIES_METADATA[i].species_id = sid]

\* CARBON_FRACTION = 0.5
CARBON_FRACTION == <<1, 2>>

\* CO2E_FACTOR = 44 / 12
CO2E_FACTOR == <<44, 12>>

\* x * (f[1] / f[2]) for a quantity x in fixed-point units
Times(x, f) == (x * f[1]) \div f[2]

(* --------------------------- calculate_dbh --------------------------- *)
calculate_dbh_off_by_one(sid, years) ==
  IF sid \notin DOMAIN DBH_VALUES
    THEN Raise("ValueError", <<"Species ", sid, " not found in DBH data">>)
    ELSE LET arr == DBH_VALUES[sid]
             max_years == Len(arr) - 1
         IN IF years > max_years + 1
              THEN Raise("ValueError",
                         <<"DBH data for ", sid, " only available for ", ToString(max_years),
                           " years. Requested ", ToString(years), " years.">>)
              ELSE Return([i \in 1..(IF years > 0 THEN years ELSE 0) |-> arr[i]])

calculate_dbh(sid, years) ==
  IF sid \notin DOMAIN DBH_VALUES
    THEN Raise("ValueError", <<"Species ", sid, " not found in DBH data">>)
    ELSE LET arr == DBH_VALUES[sid]
             max_years == Len(arr) - 1
         IN IF years > max_years
              THEN Raise("ValueError",
                         <<"DBH data for ", sid, " only available for ", ToString(max_years),
                           " years. Requested ", ToString(years), " years.">>)
              ELSE Return([t \in 1..(IF years > 0 THEN years ELSE 0) |-> arr[t + 1]])

(* ---------------------------- evaluate_agb --------------------------- *)
\* numeric literals of the texts and their values
NumVal == ("0" :> 0) @@ ("1" :> 1) @@ ("2" :> 2) @@ ("6000" :> 6000)

\* identifiers of the texts
Names == {"DBH", "exp", "EXP", "ln", "LN", "math", "sqrt", "log"}

IsWord(tok) == tok \in Names \/ tok \in DOMAIN NumVal

\* str.lower() on an identifier, for the (?i) flag of the two patterns
Lower(tok) == CASE tok = "EXP" -> "exp" [] tok = "LN" -> "ln" [] OTHER -> tok

\* a text as a Python source string would lex: no two word tokens touch
WellLexed(s) == \A i \in 1..(Len(s) - 1) : ~(IsWord(s[i]) /\ IsWord(s[i + 1]))

\* eq.replace("math.", ""): every non-overlapping occurrence, left to right, one pass
RECURSIVE replace_math_dot(_)
replace_math_dot(s) ==
  IF Len(s) < 2 THEN s
  ELSE IF s[1] = "math" /\ s[2] = "." THEN replace_math_dot(SubSeq(s, 3, Len(s)))
  ELSE <<s[1]>> \o replace_math_dot(Tail(s))

\* tmp.replace("^", "**")
replace_caret(s) == [i \in DOMAIN s |-> IF s[i] = "^" THEN "**" ELSE s[i]]

\* re.sub(r"(?i)\b<name>\(", "math.<to>(", tmp): prev is the token before s[1]
RECURSIVE re_sub_call(_, _, _, _)
re_sub_call(s, prev, name, to) ==
  IF s = << >> THEN << >>
  ELSE IF /\ Lower(s[1]) = name
          /\ ~IsWord(prev)
          /\ Len(s) >= 2
          /\ s[2] = "("
         THEN <<"math", ".", to>> \o re_sub_call(Tail(s), s[1], name, to)
         ELSE <<s[1]>> \o re_sub_call(Tail(s), s[1], name, to)

\* the text handed to eval(): app.py:152-155
rewrite(eq) ==
  re_sub_call(re_sub_call(replace_caret(replace_math_dot(eq)), "", "exp", "exp"), "", "ln", "log")

(* Python's eval of the rewritten text with globals {"__builtins__": None,  *)
(* "math": math} and locals {"DBH": dbh}.  A value is a number, the math   *)
(* module, a function of the math module, or a raised exception.           *)
Num(n) == [t |-> "num", n |-> n, s |-> ""]

Module == [t |-> "module", n |-> 0, s |-> "math"]

Fn(f) == [t |-> "fn", n |-> 0, s |-> f]

Exc(e) == [t |-> "exc", n |-> 0, s |-> e]

\* attributes of the math module that the texts can name
MathFunctions == {"exp", "log", "sqrt"}

\* name lookup: locals, then globals; there are no builtins
Lookup(name, dbh) ==
  CASE name = "DBH" -> Num(dbh)
    [] name = "math" -> Module
    [] OTHER -> Exc("NameError")

\* obj.name
GetAttr(obj, name) ==
  CASE obj.t = "exc" -> obj
    [] obj.t = "module" /\ name \in MathFunctions -> Fn(name)
    [] OTHER -> Exc("AttributeError")

RECURSIVE ilog2(_)
ilog2(x) == IF x <= 1 THEN 0 ELSE 1 + ilog2(x \div 2)

isqrt(x) == CHOOSE r \in 0..x : r * r <= x /\ (r + 1) * (r + 1) > x

\* a ** b, a / b on the integer stand-ins
Pow(a, b) ==
  IF b >= 0 THEN Num(a ^ b)
  ELSE IF a = 0 THEN Exc("ZeroDivisionError") ELSE Num(1 \div (a ^ (0 - b)))

\* math.exp, math.log, math.sqrt on the integer stand-ins (base 2 for e)
CallMath(f, x) ==
  CASE f = "exp" -> Pow(2, x)
    [] f = "log" -> IF x <= 0 THEN Exc("ValueError") ELSE Num(ilog2(x))
    [] f = "sqrt" -> IF x < 0 THEN Exc("ValueError") ELSE Num(isqrt(x))

\* obj(arg)
Call(obj, arg) ==
  CASE obj.t = "exc" -> obj
    [] arg.t = "exc" -> arg
    [] obj.t = "fn" -> IF arg.t = "num" THEN CallMath(obj.s, arg.n) ELSE Exc("TypeError")
    [] OTHER -> Exc("TypeError")

\* a op b, operands evaluated left to right
BinOp(op, a, b) ==
  CASE a.t = "exc" -> a
    [] b.t = "exc" -> b
    [] a.t # "num" \/ b.t # "num" -> Exc("TypeError")
    [] op = "+" -> Num(a.n + b.n)
    [] op = "-" -> Num(a.n - b.n)
    [] op = "*" -> Num(a.n * b.n)
    [] op = "/" -> IF b.n = 0 THEN Exc("ZeroDivisionError") ELSE Num(a.n \div b.n)
    [] op = "**" -> Pow(a.n, b.n)

Parsed(v, rest) == [ok |-> TRUE, v |-> v, rest |-> rest]

SyntaxFail == [ok |-> FALSE, v |-> Num(0), rest |-> << >>]

Starts(s, tok) == s # << >> /\ s[1] = tok

RECURSIVE ParseExpr(_, _), ExprLoop(_, _), ParseTerm(_, _), TermLoop(_, _)
RECURSIVE ParseFactor(_, _), ParseAtom(_, _), Trailers(_, _)

\* ")" after a parenthesised expression
Close(r) == IF r.ok /\ Starts(r.rest, ")") THEN Parsed(r.v, Tail(r.rest)) ELSE SyntaxFail

\* p.v(r.v) once the argument r and its ")" are read
CallWith(p, r) ==
  IF r.ok /\ Starts(r.rest, ")") THEN Parsed(Call(p.v, r.v), Tail(r.rest)) ELSE SyntaxFail

\* p.v op r.v once the right operand r is read
Apply(op, p, r) == IF r.ok THEN Parsed(BinOp(op, p.v, r.v), r.rest) ELSE SyntaxFail

\* atom: NUMBER | NAME | "(" expr ")"
ParseAtom(s, dbh) ==
  IF s = << >> THEN SyntaxFail
  ELSE IF s[1] = "(" THEN Close(ParseExpr(Tail(s), dbh))
  ELSE IF s[1] \in DOMAIN NumVal THEN Parsed(Num(NumVal[s[1]]), Tail(s))
  ELSE IF s[1] \in Names THEN Parsed(Lookup(s[1], dbh), Tail(s))
  ELSE SyntaxFail

\* trailer*: "." NAME | "(" expr ")"
Trailers(p, dbh) ==
  IF ~p.ok THEN p
  ELSE IF Starts(p.rest, ".") THEN
         IF Len(p.rest) >= 2 /\ p.rest[2] \in Names
           THEN Trailers(Parsed(GetAttr(p.v, p.rest[2]), SubSeq(p.rest, 3, Len(p.rest))), dbh)
           ELSE SyntaxFail
  ELSE IF Starts(p.rest, "(") THEN Trailers(CallWith(p, ParseExpr(Tail(p.rest), dbh)), dbh)
  ELSE p

\* ["**" factor] after a primary p
PowerTail(p, dbh) ==
  IF p.ok /\ Starts(p.rest, "**") THEN Apply("**", p, ParseFactor(Tail(p.rest), dbh)) ELSE p

\* factor: "-" factor | primary ["**" factor]
ParseFactor(s, dbh) ==
  IF Starts(s, "-")
    THEN Apply("-", Parsed(Num(0), << >>), ParseFactor(Tail(s), dbh))
    ELSE PowerTail(Trailers(ParseAtom(s, dbh), dbh), dbh)

\* term: factor (("*" | "/") factor)*
TermLoop(p, dbh) ==
  IF p.ok /\ (Starts(p.rest, "*") \/ Starts(p.rest, "/"))
    THEN TermLoop(Apply(p.rest[1], p, ParseFactor(Tail(p.rest), dbh)), dbh)
    ELSE p

ParseTerm(s, dbh) == TermLoop(ParseFactor(s, dbh), dbh)

\* expr: term (("+" | "-") term)*
ExprLoop(p, dbh) ==
  IF p.ok /\ (Starts(p.rest, "+") \/ Starts(p.rest, "-"))
    THEN ExprLoop(Apply(p.rest[1], p, ParseTerm(Tail(p.rest), dbh)), dbh)
    ELSE p

ParseExpr(s, dbh) == ExprLoop(ParseTerm(s, dbh), dbh)

\* the tokenizer drops blanks between tokens
StripBlanks(s) == SelectSeq(s, LAMBDA tok : tok # " ")

\* float(<value>): the text must be one whole expression and give a number
ToFloat(p) ==
  IF ~p.ok \/ p.rest # << >> THEN Raise("SyntaxError", << >>)
  ELSE IF p.v.t = "exc" THEN Raise(p.v.s, << >>)
  ELSE IF p.v.t # "num" THEN Raise("TypeError", << >>)
  ELSE Return(p.v.n)

\* float(eval(tmp, {"__builtins__": None, "math": math}, {"DBH": dbh}))
PyEval(tmp, dbh) == ToFloat(ParseExpr(StripBlanks(tmp), dbh))

(* the texts and diameters evaluate_agb is called with *)
\* the part of a probe text before "(DBH)"
CalleeTokens == {"math", ".", " ", "exp", "LN", "sqrt"}

\* texts of the form <callee>(DBH)
ProbeTexts ==
  {callee \o <<"(", "DBH", ")">> :
     callee \in {c \in UNION {[1..n -> CalleeTokens] : n \in 1..MaxCallee} : WellLexed(c)}}

EqTexts ==
  {SPECIES_METADATA[i].allometric_equation : i \in DOMAIN SPECIES_METADATA} \cup ProbeTexts

\* diameters of direct calls
DbhInputs == {-5, 0, 4}

\* every diameter in use: the curves' values and the direct calls'
DbhDomain ==
  DbhInputs \cup UNION {{DBH_VALUES[sid][a] : a \in DOMAIN DBH_VALUES[sid]} : sid \in DOMAIN DBH_VALUES}

\* eval of the rewritten text, tabulated once over the texts and the positive
\* diameters in use
EvalTable ==
  [eq \in EqTexts |-> [dbh \in {d \in DbhDomain : d > 0} |-> PyEval(rewrite(eq), dbh)]]

evaluate_agb(eq, dbh) ==
  IF dbh <= 0 THEN Return(0) ELSE EvalTable[eq][dbh]

(* ------------------------ get_recs_for_species ----------------------- *)
append_rec_next_year(recs, rsr, start, cnt, age, agb) ==
  IF Raised(agb) THEN agb
  ELSE Return(Append(recs, [project_year |-> start + age,
                            agb_total |-> agb.val * cnt,
                            bgb_total |-> Times(agb.val, rsr) * cnt]))

\* recs.append({...}) for one age, or the exception evaluate_agb raised
append_rec(recs, rsr, start, cnt, age, agb) ==
  IF Raised(agb) THEN agb
  ELSE Return(Append(recs, [project_year |-> start + age - 1,
                            agb_total |-> agb.val * cnt,
                            bgb_total |-> Times(agb.val, rsr) * cnt]))

\* for age, dbh in enumerate(dbh_values, 1): app.py:173-180
RECURSIVE age_loop(_, _, _, _, _, _, _)
age_loop(eq, rsr, start, cnt, dbh_values, age, recs) ==
  IF Raised(recs) \/ age > Len(dbh_values) THEN recs
  ELSE age_loop(eq, rsr, start, cnt, dbh_values, age + 1,
                append_rec(recs.val, rsr, start, cnt, age, evaluate_agb(eq, dbh_values[age])))

\* the try/except around calculate_dbh, then the records of the planting
planting_recs(sid, eq, rsr, start, cnt, dbh_values, recs) ==
  IF dbh_values.exc = "ValueError"
    THEN Raise("ValueError",
               <<"Error for ", sid, " planted in year ", ToString(start), ": ">>
                 \o dbh_values.msg)
    ELSE age_loop(eq, rsr, start, cnt, dbh_values.val, 1, recs)

\* for start, cnt in sched: app.py:163-180
RECURSIVE planting_loop(_, _, _, _, _, _, _)
planting_loop(sid, eq, rsr, sched, yrs, i, recs) ==
  IF Raised(recs) \/ i > Len(sched) THEN recs
  ELSE planting_loop(sid, eq, rsr, sched, yrs, i + 1,
                     planting_recs(sid, eq, rsr, sched[i][1], sched[i][2],
                                   calculate_dbh(sid, yrs - sched[i][1] + 1), recs))

get_recs_for_species_first_only(sid, sched, yrs) ==
  IF sid \notin RegistryIds THEN Raise("KeyError", <<sid>>)
  ELSE planting_loop(sid, Meta(sid).allometric_equation, Meta(sid).rsr,
                     SubSeq(sched, 1, 1), yrs, 1, Return(<< >>))

\* df_sp.loc[sid, ...] raises KeyError for an id that is no index label
get_recs_for_species(sid, sched, yrs) ==
  IF sid \notin RegistryIds THEN Raise("KeyError", <<sid>>)
  ELSE planting_loop(sid, Meta(sid).allometric_equation, Meta(sid).rsr, sched, yrs, 1,
                     Return(<< >>))

(* ------------------------------ run_multi ---------------------------- *)
\* keys of by_sp in insertion order: the species ids by first appearance
RECURSIVE by_sp_keys(_, _)
by_sp_keys(schedule, keys) ==
  IF schedule = << >> THEN keys
  ELSE by_sp_keys(Tail(schedule),
                  IF \E k \in DOMAIN keys : keys[k] = schedule[1].species_id
                    THEN keys
                    ELSE Append(keys, schedule[1].species_id))

\* by_sp[sid]: the (year, trees) pairs of sid, in schedule order
RECURSIVE by_sp_list(_, _)
by_sp_list(schedule, sid) ==
  IF schedule = << >> THEN << >>
  ELSE (IF schedule[1].species_id = sid
          THEN << <<schedule[1].year, schedule[1].trees>> >>
          ELSE << >>) \o by_sp_list(Tail(schedule), sid)

\* all_recs += ..., or the exception with the species named: app.py:191-197
extend_recs(all_recs, sid, r) ==
  IF r.exc = "ValueError" THEN Raise("ValueError", <<"Error processing ", sid, ": ">> \o r.msg)
  ELSE IF Raised(r) THEN r
  ELSE Return(all_recs \o r.val)

\* for sid, sched in by_sp.items(): app.py:190-197
RECURSIVE species_loop(_, _, _, _, _)
species_loop(schedule, keys, yrs, k, all_recs) ==
  IF Raised(all_recs) \/ k > Len(keys) THEN all_recs
  ELSE species_loop(schedule, keys, yrs, k + 1,
                    extend_recs(all_recs.val, keys[k],
                                get_recs_for_species(keys[k], by_sp_list(schedule, keys[k]), yrs)))

RECURSIVE SeqSum(_)
SeqSum(s) == IF s = << >> THEN 0 ELSE s[1] + SeqSum(Tail(s))

\* the values of a set of integers in ascending order
RECURSIVE Ascending(_)
Ascending(S) ==
  IF S = {} THEN << >>
  ELSE LET m == CHOOSE x \in S : \A y \in S : x <= y
       IN <<m>> \o Ascending(S \ {m})

\* the values of one column in the records of one project year
Column(recs, col, y) ==
  LET of_year == SelectSeq(recs, LAMBDA r : r.project_year = y)
  IN [i \in DOMAIN of_year |-> of_year[i][col]]

diff_from_first(col) ==
  [i \in DOMAIN col |-> IF i = 1 THEN [nan |-> TRUE, v |-> 0]
                        ELSE [nan |-> FALSE, v |-> col[i] - col[1]]]

\* Series.diff(): NaN in the first place
diff(col) ==
  [i \in DOMAIN col |-> IF i = 1 THEN [nan |-> TRUE, v |-> 0]
                        ELSE [nan |-> FALSE, v |-> col[i] - col[i - 1]]]

fillna_zero(s, other) == [i \in DOMAIN s |-> IF s[i].nan THEN 0 ELSE s[i].v]

\* Series.fillna(other): other's value wherever the series is NaN
fillna(s, other) == [i \in DOMAIN s |-> IF s[i].nan THEN other[i] ELSE s[i].v]

\* Series.cumsum()
cumsum_no_carry(col) == col

cumsum(col) == [i \in DOMAIN col |-> SeqSum(SubSeq(col, 1, i))]

\* groupby("project_year").sum().reset_index().sort_values("project_year")
groupby_sum_last(all_recs) ==
  LET years == Ascending({all_recs[i].project_year : i \in DOMAIN all_recs})
  IN [project_year |-> years,
      agb_total |-> [i \in DOMAIN years |->
                       LET c == Column(all_recs, "agb_total", years[i]) IN c[Len(c)]],
      bgb_total |-> [i \in DOMAIN years |->
                       LET c == Column(all_recs, "bgb_total", years[i]) IN c[Len(c)]]]

groupby_sum(all_recs) ==
  LET years == Ascending({all_recs[i].project_year : i \in DOMAIN all_recs})
  IN [project_year |-> years,
      agb_total |-> [i \in DOMAIN years |-> SeqSum(Column(all_recs, "agb_total", years[i]))],
      bgb_total |-> [i \in DOMAIN years |-> SeqSum(Column(all_recs, "bgb_total", years[i]))]]

\* df["annual_biomass"], df["carbon_total"], df["co2e_total"], df["cumulative_co2e"]
with_co2e(df, co2e_total) ==
  [df EXCEPT !.co2e_total = co2e_total, !.cumulative_co2e = cumsum(co2e_total)]

with_carbon(df, carbon_total) ==
  with_co2e([df EXCEPT !.carbon_total = carbon_total],
            [i \in DOMAIN carbon_total |-> Times(carbon_total[i], CO2E_FACTOR)])

with_biomass(df, annual_biomass) ==
  with_carbon([df EXCEPT !.annual_biomass = annual_biomass],
              [i \in DOMAIN annual_biomass |-> Times(annual_biomass[i], CARBON_FRACTION)])

with_annual(df, annual_agb, annual_bgb) ==
  with_biomass([df EXCEPT !.annual_agb = annual_agb, !.annual_bgb = annual_bgb],
               [i \in DOMAIN annual_agb |-> annual_agb[i] + annual_bgb[i]])

\* the derived columns: app.py:206-211
derive_columns(g) ==
  with_annual([project_year |-> g.project_year,
               agb_total |-> g.agb_total,
               bgb_total |-> g.bgb_total,
               annual_agb |-> << >>,
               annual_bgb |-> << >>,
               annual_biomass |-> << >>,
               carbon_total |-> << >>,
               co2e_total |-> << >>,
               cumulative_co2e |-> << >>],
              fillna(diff(g.agb_total), g.agb_total),
              fillna(diff(g.bgb_total), g.bgb_total))

\* the frame of the records; one built from no records has no project_year
\* column to group by
aggregate(all_recs) ==
  IF Raised(all_recs) THEN all_recs
  ELSE IF all_recs.val = << >> THEN Raise("KeyError", <<"project_year">>)
  ELSE Return(derive_columns(groupby_sum(all_recs.val)))

run_multi(schedule, yrs) ==
  aggregate(species_loop(schedule, by_sp_keys(schedule, << >>), yrs, 1, Return(<< >>)))

(* ----------------------------- /calculate ---------------------------- *)
\* df.to_dict("records")
to_dict_records(df) ==
  [i \in DOMAIN df.project_year |->
     [project_year |-> df.project_year[i],
      agb_total |-> df.agb_total[i],
      bgb_total |-> df.bgb_total[i],
      annual_agb |-> df.annual_agb[i],
      annual_bgb |-> df.annual_bgb[i],
      annual_biomass |-> df.annual_biomass[i],
      carbon_total |-> df.carbon_total[i],
      co2e_total |-> df.co2e_total[i],
      cumulative_co2e |-> df.cumulative_co2e[i]]]

\* a / d rounded to the nearest integer, ties to even
RoundDiv(a, d) ==
  LET q == a \div d
      r == a % d
  IN IF 2 * r < d THEN q
     ELSE IF 2 * r > d THEN q + 1
     ELSE IF q % 2 = 0 THEN q ELSE q + 1

\* round(float(df["co2e_total"].mean()), 3), in thousandths (6 units of 1/6000)
average_co2e(df) == RoundDiv(SeqSum(df.co2e_total), 6 * Len(df.co2e_total))

NoRequest == [schedule |-> << >>, project_years |-> 0]

NoResponse == [status |-> 0, exc |-> "none", error |-> << >>, yearly_data |-> << >>, average_co2e |-> 0]

NoDbhCall == [sid |-> "", years |-> 0, result |-> Return(<< >>)]

NoAgbCall == [eq |-> << >>, dbh |-> 0, result |-> Return(0)]

\* return jsonify(...): app.py:285-291.  Only ValueError is handled; any
\* other exception leaves the view and the framework answers 500.
jsonify(df) ==
  IF df.exc = "ValueError"
    THEN [NoResponse EXCEPT !.status = 400, !.exc = df.exc, !.error = df.msg]
  ELSE IF Raised(df)
    THEN [NoResponse EXCEPT !.status = 500, !.exc = df.exc, !.error = df.msg]
  ELSE [NoResponse EXCEPT !.status = 200,
                          !.yearly_data = to_dict_records(df.val),
                          !.average_co2e = average_co2e(df.val)]

calculate_response(sched, yrs) == jsonify(run_multi(sched, yrs))

(* ------------------------------- inputs ------------------------------ *)
\* an id that is in no table is looked up before its plantings are read, so
\* one planting of it stands for all
PlantingEvents ==
  [species_id : RegistryIds, year : 1..MaxStart, trees : TreeCounts]
    \cup {[species_id |-> "XXXXX", year |-> 1, trees |-> 1]}

Schedules == UNION {[1..n -> PlantingEvents] : n \in 0..MaxLen}

(* ------------------------------ actions ------------------------------ *)
Init ==
  /\ pc = "idle"
  /\ total_requests = 0
  /\ request = NoRequest
  /\ response = NoResponse
  /\ dbh_call = NoDbhCall
  /\ agb_call = NoAgbCall

\* POST /calculate: app.py:273-291
Calculate ==
  /\ pc = "idle"
  /\ total_requests < MaxRequests
  /\ \E sched \in Schedules, yrs \in 1..MaxYrs :
       /\ request' = [schedule |-> sched, project_years |-> yrs]
       /\ response' = calculate_response(sched, yrs)
  /\ total_requests' = total_requests + 1
  /\ pc' = "calculate"
  /\ UNCHANGED <<dbh_call, agb_call>>

\* a call of calculate_dbh(sid, years)
CalculateDbh ==
  /\ pc = "idle"
  /\ \E sid \in SpeciesIds, years \in (-1)..(MaxYrs + 2) :
       dbh_call' = [sid |-> sid, years |-> years, result |-> calculate_dbh(sid, years)]
  /\ pc' = "calculate_dbh"
  /\ UNCHANGED <<total_requests, request, response, agb_call>>

\* a call of evaluate_agb(eq, dbh)
EvaluateAgb ==
  /\ pc = "idle"
  /\ \E eq \in EqTexts, dbh \in DbhInputs :
       agb_call' = [eq |-> eq, dbh |-> dbh, result |-> evaluate_agb(eq, dbh)]
  /\ pc' = "evaluate_agb"
  /\ UNCHANGED <<total_requests, request, response, dbh_call>>

\* the call has returned; nothing of it is kept but the request counter
Finish ==
  /\ pc # "idle"
  /\ pc' = "idle"
  /\ request' = NoRequest
  /\ response' = NoResponse
  /\ dbh_call' = NoDbhCall
  /\ agb_call' = NoAgbCall
  /\ UNCHANGED total_requests

Next == Calculate \/ CalculateDbh \/ EvaluateAgb \/ Finish

Spec == Init /\ [][Next]_vars

(* ------------------------------ claims ------------------------------- *)
\* a /calculate call has been answered
Answered == pc = "calculate"

Returned == Answered /\ response.status = 200

schedule == request.schedule

yrs == request.project_years

rows == response.yearly_data

Registered(i) == schedule[i].species_id \in RegistryIds

max_age(sid) == Len(DBH_VALUES[sid]) - 1

duration(i) == yrs - schedule[i].year + 1

\* planting i is growing in project year y
Active(i, y) == schedule[i].year <= y /\ y <= yrs

ActiveYears == {y \in 1..yrs : \E i \in DOMAIN schedule : Active(i, y)}

\* evaluate(equation of s, curve_s[age]) for every registered s and age >= 1
AgbByAge ==
  [sid \in RegistryIds |->
     [age \in 1..(Len(DBH_VALUES[sid]) - 1) |->
        evaluate_agb(Meta(sid).allometric_equation, DBH_VALUES[sid][age + 1]).val]]

\* evaluate(equation of s, curve_s[age]) for the species of planting i
AgbPerTree(i, age) == AgbByAge[schedule[i].species_id][age]

RECURSIVE SumOver(_, _)
SumOver(S, f) ==
  IF S = {} THEN 0
  ELSE LET x == CHOOSE x \in S : TRUE IN f[x] + SumOver(S \ {x}, f)

\* the sum of AGB x count over the plantings active in year y
StandingAgb(y) ==
  SumOver({i \in DOMAIN schedule : Active(i, y)},
          [i \in DOMAIN schedule |->
             AgbPerTree(i, y - schedule[i].year + 1) * schedule[i].trees])

\* the same sum with each term times the numerator of the species' rsr
StandingBgbNum(y) ==
  SumOver({i \in DOMAIN schedule : Active(i, y)},
          [i \in DOMAIN schedule |->
             AgbPerTree(i, y - schedule[i].year + 1) * schedule[i].trees
               * Meta(schedule[i].species_id).rsr[1]])

\* C1: when run_multi returns, there is exactly one row per distinct project
\* year, in ascending order, and the row of year y has agb_total equal to the
\* sum over every planting active in y (all species, repeated plantings each
\* counted) of evaluate(eq, curve[y - start + 1]) * count, and bgb_total equal
\* to the same sum with each term multiplied by the root-to-shoot ratio.
C1_RowsAreCohortSums ==
  Returned =>
    /\ {rows[k].project_year : k \in DOMAIN rows} = ActiveYears
    /\ Len(rows) = Cardinality(ActiveYears)
    /\ \A k \in 1..(Len(rows) - 1) : rows[k].project_year < rows[k + 1].project_year
    /\ \A k \in DOMAIN rows :
         /\ rows[k].agb_total = StandingAgb(rows[k].project_year)
         /\ rows[k].bgb_total * 1000 = StandingBgbNum(rows[k].project_year)

\* two plantings of one species in one year and a planting of another species,
\* all summed into one row
C1_Witness ==
  /\ Returned
  /\ \E i, j, k \in DOMAIN schedule :
       /\ i < j
       /\ schedule[i].species_id = schedule[j].species_id
       /\ schedule[i].year = schedule[j].year
       /\ schedule[k].species_id # schedule[i].species_id
       /\ schedule[k].year = schedule[i].year
       /\ schedule[i].trees # schedule[j].trees
  /\ \E r \in DOMAIN rows : rows[r].agb_total > 0

\* C2: the first row has annual_agb = agb_total and annual_bgb = bgb_total;
\* every later row has annual = total - total of the row before; also when
\* the first project year is after year 1 and when the first total is zero.
C2_FirstDifferences ==
  Returned =>
    /\ rows[1].annual_agb = rows[1].agb_total
    /\ rows[1].annual_bgb = rows[1].bgb_total
    /\ \A k \in 2..Len(rows) :
         /\ rows[k].annual_agb = rows[k].agb_total - rows[k - 1].agb_total
         /\ rows[k].annual_bgb = rows[k].bgb_total - rows[k - 1].bgb_total

\* the first active year is after year 1, its total is zero, and growth follows
C2_Witness ==
  /\ Returned
  /\ Len(rows) >= 2
  /\ rows[1].project_year > 1
  /\ rows[1].agb_total = 0
  /\ rows[2].annual_agb > 0

\* C3: in every row annual_biomass = annual_agb + annual_bgb, carbon_total =
\* annual_biomass * 1/2, co2e_total = carbon_total * 44/12, and
\* cumulative_co2e is the running sum of co2e_total over the rows.
C3_CarbonColumns ==
  Returned =>
    /\ \A k \in DOMAIN rows :
         /\ rows[k].annual_biomass = rows[k].annual_agb + rows[k].annual_bgb
         /\ 2 * rows[k].carbon_total = rows[k].annual_biomass
         /\ 12 * rows[k].co2e_total = 44 * rows[k].carbon_total
    /\ rows[1].cumulative_co2e = rows[1].co2e_total
    /\ \A k \in 2..Len(rows) :
         rows[k].cumulative_co2e = rows[k].co2e_total + rows[k - 1].cumulative_co2e

\* three rows whose running sum carries more than one year's CO2e
C3_Witness ==
  /\ Returned
  /\ Len(rows) >= 3
  /\ rows[2].co2e_total > 0
  /\ rows[3].co2e_total > 0
  /\ rows[3].cumulative_co2e > rows[3].co2e_total

\* C4: for a registered species with a curve of length L, calculate_dbh(s, d)
\* returns exactly curve[1], ..., curve[d] when 0 <= d <= L - 1 (nothing for
\* d = 0, never curve[0]), and raises the horizon error, returning no values,
\* when d > L - 1.
C4_DbhSequence ==
  (pc = "calculate_dbh" /\ dbh_call.sid \in RegistryIds /\ dbh_call.years >= 0) =>
    LET curve == DBH_VALUES[dbh_call.sid]
        d == dbh_call.years
        r == dbh_call.result
    IN IF d <= Len(curve) - 1
         THEN /\ ~Raised(r)
              /\ Len(r.val) = d
              /\ \A a \in 1..d : r.val[a] = curve[a + 1]
         ELSE /\ r.exc = "ValueError"
              /\ r.val = << >>
              /\ r.msg = <<"DBH data for ", dbh_call.sid, " only available for ",
                           ToString(Len(curve) - 1), " years. Requested ", ToString(d),
                           " years.">>

\* the longest supported duration: every age but age 0 comes back
C4_Witness ==
  /\ pc = "calculate_dbh"
  /\ dbh_call.sid \in RegistryIds
  /\ dbh_call.years = max_age(dbh_call.sid)
  /\ dbh_call.years >= 3
  /\ ~Raised(dbh_call.result)
  /\ Len(dbh_call.result.val) = dbh_call.years
  /\ dbh_call.result.val[dbh_call.years] > 0

\* the species ids of the schedule by first appearance, as positions
FirstIdx(sid) == CHOOSE i \in DOMAIN schedule :
                   /\ schedule[i].species_id = sid
                   /\ \A j \in 1..(i - 1) : schedule[j].species_id # sid

\* planting i is processed before planting j: species by first appearance,
\* then plantings of one species in schedule order
Before(i, j) ==
  \/ FirstIdx(schedule[i].species_id) < FirstIdx(schedule[j].species_id)
  \/ schedule[i].species_id = schedule[j].species_id /\ i < j

\* planting i asks for more years than the curve of its species covers
Offending(i) == Registered(i) /\ duration(i) > max_age(schedule[i].species_id)

FirstOffending(i) ==
  /\ Offending(i)
  /\ \A j \in DOMAIN schedule : Offending(j) /\ j # i => Before(i, j)

\* the horizon error of planting i with the planting's and the species' context
HorizonExceeded(i) ==
  LET sid == schedule[i].species_id
  IN <<"Error processing ", sid, ": ",
       "Error for ", sid, " planted in year ", ToString(schedule[i].year), ": ",
       "DBH data for ", sid, " only available for ", ToString(max_age(sid)),
       " years. Requested ", ToString(duration(i)), " years.">>

\* C5: a call whose schedule holds an id that is not in the registry, its other
\* plantings valid, fails with the handled error kind (the rejected request
\* the caller answers for the other errors), names the id, and returns no row.
C5_UnknownSpeciesRejected ==
  (/\ Answered
   /\ \E i \in DOMAIN schedule : ~Registered(i)
   /\ \A i \in DOMAIN schedule : ~Offending(i)) =>
    /\ response.status = 400
    /\ response.exc = "ValueError"
    /\ \E k \in DOMAIN response.error : response.error[k] = "XXXXX"
    /\ response.yearly_data = << >>

\* C6 as claimed: if any planting asks for more than max_age years, the call
\* fails with the horizon error of the first such planting in processing
\* order, carrying species id, max age, requested duration and start year,
\* and no rows are returned.
C6_HorizonExceededAlways ==
  (Answered /\ \E i \in DOMAIN schedule : Offending(i)) =>
    /\ response.status = 400
    /\ response.exc = "ValueError"
    /\ response.yearly_data = << >>
    /\ \E i \in DOMAIN schedule : FirstOffending(i) /\ response.error = HorizonExceeded(i)

\* C6 amended: the same, provided no id that is absent from the registry comes
\* before the species of the first offending planting in first-appearance
\* order (such an id fails the call first, with its own error).
C6_HorizonExceededFirst ==
  \A i \in DOMAIN request.schedule :
    (/\ Answered
     /\ FirstOffending(i)
     /\ \A u \in DOMAIN schedule : ~Registered(u) => Before(i, u)) =>
      /\ response.status = 400
      /\ response.exc = "ValueError"
      /\ response.yearly_data = << >>
      /\ response.error = HorizonExceeded(i)

\* a valid planting is processed first, and the offending planting that is
\* reported is not the first offending one of the schedule
C6_Witness ==
  /\ Answered
  /\ response.status = 400
  /\ \E i, j, k \in DOMAIN schedule :
       /\ i < j /\ j < k
       /\ ~Offending(i)
       /\ Offending(j)
       /\ FirstOffending(k)
       /\ response.error = HorizonExceeded(k)

\* the schedule without planting i
Without(i) == SubSeq(schedule, 1, i - 1) \o SubSeq(schedule, i + 1, Len(schedule))

\* C7: with registered species only and no planting beyond its curve, a
\* planting that starts after the horizon causes no error and the call returns
\* the rows it returns without that planting, whether or not another planting
\* is active within the horizon.
C7_LatePlantingIgnored ==
  \A i \in DOMAIN request.schedule :
    (/\ Answered
     /\ \A j \in DOMAIN schedule : Registered(j) /\ ~Offending(j)
     /\ schedule[i].year > yrs) =>
      /\ response.status = 200
      /\ response = calculate_response(Without(i), yrs)

\* the records get_recs_for_species emits for a species of the schedule
SpeciesRecs(sid) == get_recs_for_species(sid, by_sp_list(schedule, sid), yrs).val

\* the number of records a planting must emit
RecsOf(j) == IF duration(j) > 0 THEN duration(j) ELSE 0

\* how many records the plantings of that species before planting i emit
RecsBefore(i) ==
  SumOver({j \in 1..(i - 1) : schedule[j].species_id = schedule[i].species_id},
          [j \in DOMAIN schedule |-> RecsOf(j)])

\* the records of one species, planting by planting: one per year, start to horizon
RecsInPlace(sid, recs) ==
  /\ Len(recs) = SumOver({j \in DOMAIN schedule : schedule[j].species_id = sid},
                         [j \in DOMAIN schedule |-> RecsOf(j)])
  /\ \A i \in DOMAIN schedule :
       schedule[i].species_id = sid =>
         \A age \in 1..duration(i) :
           recs[RecsBefore(i) + age].project_year = schedule[i].year + age - 1

\* C8: every record of a planting has project_year = start + age - 1 for
\* exactly one age in 1..duration, one record per year from start to the
\* horizon; so the rows' years are strictly ascending and contiguous, from the
\* smallest start year that is within the horizon up to the horizon.
C8_ContiguousYears ==
  Returned =>
    /\ \A sid \in {schedule[i].species_id : i \in DOMAIN schedule} :
         RecsInPlace(sid, SpeciesRecs(sid))
    /\ LET first == CHOOSE y \in ActiveYears : \A z \in ActiveYears : y <= z
       IN /\ first = CHOOSE y \in {schedule[i].year : i \in DOMAIN schedule} :
                       /\ y <= yrs
                       /\ \A i \in DOMAIN schedule :
                            schedule[i].year <= yrs => y <= schedule[i].year
          /\ Len(rows) = yrs - first + 1
          /\ \A k \in DOMAIN rows : rows[k].project_year = first + k - 1

\* plantings of two start years, the first after year 1, and one out of horizon
C8_Witness ==
  /\ Returned
  /\ rows[1].project_year = 2
  /\ Len(rows) >= 3
  /\ \E i, j \in DOMAIN schedule :
       /\ schedule[i].species_id = schedule[j].species_id
       /\ i < j
       /\ schedule[i].year <= yrs
       /\ schedule[j].year <= yrs

\* C9: evaluate_agb is sandboxed; a text that calls another function of the
\* math module (here sqrt), however the text spells it, is not evaluated: the
\* call fails.
C9_Sandboxed ==
  (/\ pc = "evaluate_agb"
   /\ agb_call.dbh > 0
   /\ \E k \in DOMAIN agb_call.eq : agb_call.eq[k] = "sqrt") =>
    Raised(agb_call.result)

\* the curves are non-decreasing in age
CurvesNonDecreasing ==
  \A sid \in RegistryIds :
    \A a \in 1..(Len(DBH_VALUES[sid]) - 1) : DBH_VALUES[sid][a] <= DBH_VALUES[sid][a + 1]

\* the biomass functions are non-decreasing in DBH, on the diameters in use
BiomassNonDecreasing ==
  \A m \in DOMAIN SPECIES_METADATA :
    \A d1, d2 \in DbhDomain :
      d1 <= d2 =>
        evaluate_agb(SPECIES_METADATA[m].allometric_equation, d1).val
          <= evaluate_agb(SPECIES_METADATA[m].allometric_equation, d2).val

\* C10: the annual values telescope: over rows 1..k they sum to the standing
\* totals of row k, so cumulative_co2e = (agb_total + bgb_total) * 1/2 * 44/12
\* in every row; and with non-decreasing curves and biomass functions every
\* annual value is >= 0 and cumulative_co2e never decreases.
C10_Telescoping ==
  Returned =>
    /\ \A k \in DOMAIN rows :
         /\ SeqSum([j \in 1..k |-> rows[j].annual_agb]) = rows[k].agb_total
         /\ SeqSum([j \in 1..k |-> rows[j].annual_bgb]) = rows[k].bgb_total
         /\ 2 * 12 * rows[k].cumulative_co2e = 44 * (rows[k].agb_total + rows[k].bgb_total)
    /\ (CurvesNonDecreasing /\ BiomassNonDecreasing) =>
         /\ \A k \in DOMAIN rows : rows[k].annual_agb >= 0 /\ rows[k].annual_bgb >= 0
         /\ \A k \in 2..Len(rows) : rows[k - 1].cumulative_co2e <= rows[k].cumulative_co2e

\* three cohorts of two start years and two species, growing over three rows
C10_Witness ==
  /\ Returned
  /\ Len(rows) >= 3
  /\ Len(schedule) = 3
  /\ \E i, j \in DOMAIN schedule :
       /\ schedule[i].year # schedule[j].year
       /\ schedule[i].species_id # schedule[j].species_id
  /\ rows[2].annual_agb > 0
  /\ rows[3].annual_agb > rows[2].annual_agb
  /\ CurvesNonDecreasing /\ BiomassNonDecreasing

====
